---- MODULE Spec2Model ----
(***************************************************************************)
(* A model of the Ijai vacuum map parser:                                  *)
(*   - ParsingBuffer (parsing_buffer.py), the bounded cursor reader,       *)
(*   - IjaiImageParser.parse and get_current_vacuum_room                   *)
(*     (image_parser.py), the raster decoder and the room locator,         *)
(*   - IjaiMapDataParser._map_to_image / _image_to_map                     *)
(*     (map_data_parser.py), the coordinate transforms.                    *)
(*                                                                         *)
(* Five specifications share the variables:                                *)
(*   SpecBuf   any sequence of ParsingBuffer calls on a small buffer,      *)
(*   Spec      one IjaiImageParser.parse call, stepped cell by cell,       *)
(*   SpecLoc   get_current_vacuum_room on 800x800 rasters,                 *)
(*   SpecXform the coordinate transforms in binary64 arithmetic,           *)
(*   SpecMap   the decoder, then the lookup of the vacuum's room.          *)
(***************************************************************************)
EXTENDS Integers, Sequences, FiniteSets, TLC

VARIABLES
    data,             \* ParsingBuffer.data: the bytes object read
    offs,             \* ParsingBuffer.offs
    length,           \* ParsingBuffer.length
    image_beginning,  \* ParsingBuffer._image_beginning
    start_offs,       \* the start_offs the buffer was constructed with
    init_length,      \* the length the buffer was constructed with
    last,             \* the last call made: what it was and how it ended
    pc,               \* where the call in progress stands
    config,           \* width, height, ImageConfig trim and scale, drawables
    img_x, img_y,     \* parse: the loop counters
    pixels,           \* parse: image.load(), the bitmap's pixels
    cleaned_areas_pixels,  \* parse: the overlay's pixels, or None
    rooms,            \* parse: room number -> (x0, y0, x1, y1)
    cleaned_areas,    \* parse: the set of selected room numbers
    unknown_pixels,   \* parse: the set of unrecognized raw values
    writes,           \* history: how often parse has written each pixel
    result            \* parse: what the call returned or raised

bufvars == <<data, offs, length, image_beginning, start_offs, init_length>>

parsevars ==
    <<config, img_x, img_y, pixels, cleaned_areas_pixels, rooms,
      cleaned_areas, unknown_pixels, writes, result>>

vars == <<bufvars, last, pc, parsevars>>

-----------------------------------------------------------------------------
(* Bounds of the model.                                                    *)

MaxData == 4      \* SpecBuf: the longest bytes object
MaxStart == 1     \* SpecBuf: the largest start offset
MaxLength == 5    \* SpecBuf: the largest constructed length
MaxSkip == 3      \* SpecBuf: the largest skip count
MaxCells == 4     \* Spec: the largest raster, width * height
MaxMissing == 1   \* Spec: how many bytes map_data may fall short of the raster
MaxCm == 12       \* SpecXform: real-world coordinates of -MaxCm .. MaxCm cm
MaxRow == 1       \* SpecXform: pixel rows 0 .. MaxRow and GRID - 1 - MaxRow .. GRID

-----------------------------------------------------------------------------
(* Python values.                                                          *)

(* A bytes object of d.len bytes: d.at gives the bytes at the indices it   *)
(* lists (0-based) and every other byte is d.fill.                         *)
BytesOf(s) ==
    [len |-> Len(s), fill |-> 0, at |-> [i \in 0 .. Len(s) - 1 |-> s[i + 1]]]

ByteAt(d, j) == IF j \in DOMAIN d.at THEN d.at[j] ELSE d.fill

(* d[i]: a negative index counts from the end; outside -len .. len-1 the   *)
(* subscript raises IndexError.                                            *)
InRange(d, i) == -d.len <= i /\ i < d.len

Subscript(d, i) == ByteAt(d, IF i < 0 THEN i + d.len ELSE i)

(* d[a:b] for 0 <= a <= b: a slice is clipped to the object, never raises. *)
Slice(d, a, b) ==
    LET lo == IF a < d.len THEN a ELSE d.len
        hi == IF b < d.len THEN b ELSE d.len
    IN  [k \in 1 .. hi - lo |-> ByteAt(d, lo + k - 1)]

(* struct.unpack_from(fmt, d, o) of an n-byte format and o >= 0 raises     *)
(* struct.error unless the n bytes lie inside d.                           *)
CanUnpack(d, o, n) == o + n <= d.len

(* The n bytes at o, least significant first: the base-256 digits of the   *)
(* little-endian value read there.                                         *)
LEDigits(d, o, n) == [k \in 1 .. n |-> ByteAt(d, o + k - 1)]

RECURSIVE BitXor(_, _)
BitXor(a, b) ==
    IF a = 0 THEN b
    ELSE IF b = 0 THEN a
    ELSE 2 * BitXor(a \div 2, b \div 2) + (((a % 2) + (b % 2)) % 2)

(* bytes.decode("UTF-8") raises UnicodeDecodeError on a byte that no UTF-8 *)
(* sequence contains; the model's buffers hold ASCII bytes and 0xFF only.  *)
Utf8Valid(s) == \A k \in 1 .. Len(s) : s[k] < 128

(* None, a value equal only to itself.                                     *)
None == [none |-> TRUE]

(* Exceptions: the type, and for the buffer's underrun ValueError the      *)
(* field and the offset its message names.                                 *)
NoExc == [type |-> "None", field |-> <<>>, offset |-> -1]

Underrun(field, o) == [type |-> "ValueError", field |-> field, offset |-> o]

Raised(t) == [type |-> t, field |-> <<>>, offset |-> -1]

-----------------------------------------------------------------------------
(* ParsingBuffer.  A buffer value b is [data, offs, length,                *)
(* image_beginning]; every primitive maps b to the buffer after the call,  *)
(* the exception it raised (NoExc when it returned) and the value.         *)

ParsingBuffer(d, s, l) ==
    [data |-> d, offs |-> s, length |-> l, image_beginning |-> 0]

Ret(b, exc, v) == [buf |-> b, raised |-> exc, value |-> v]

Advance(b, n) == [b EXCEPT !.offs = @ + n, !.length = @ - n]

mark_as_image_beginning(b) ==
    Ret([b EXCEPT !.image_beginning = b.offs], NoExc, <<>>)

get_at_image(b, offset) ==
    LET i == b.image_beginning + offset - 1
    IN  IF InRange(b.data, i)
        THEN Ret(b, NoExc, Subscript(b.data, i))
        ELSE Ret(b, Raised("IndexError"), <<>>)

(* skip without its length check.                                          *)
skip_unchecked(b, field, n) == Ret(Advance(b, n), NoExc, <<>>)

(* skip that checks the length and leaves the cursor where it was.         *)
skip_unmoved(b, field, n) ==
    IF b.length < n
    THEN Ret(b, Underrun(field, b.offs), <<>>)
    ELSE Ret(b, NoExc, <<>>)

skip(b, field, n) ==
    IF b.length < n
    THEN Ret(b, Underrun(field, b.offs), <<>>)
    ELSE Ret(Advance(b, n), NoExc, <<>>)

get_uint8(b, field) ==
    IF b.length < 1
    THEN Ret(b, Underrun(field, b.offs), <<>>)
    ELSE LET nb == Advance(b, 1)
         IN  IF InRange(b.data, nb.offs - 1)
             THEN Ret(nb, NoExc, Subscript(b.data, nb.offs - 1))
             ELSE Ret(nb, Raised("IndexError"), <<>>)

get_uint16(b, field) ==
    IF b.length < 2
    THEN Ret(b, Underrun(field, b.offs), <<>>)
    ELSE IF ~CanUnpack(b.data, b.offs, 2)
    THEN Ret(b, Raised("struct.error"), <<>>)
    ELSE Ret(Advance(b, 2), NoExc,
             ByteAt(b.data, b.offs) + 256 * ByteAt(b.data, b.offs + 1))

(* The underrun branch formats self._offs, an attribute the class never    *)
(* sets: building the message raises AttributeError.                       *)
get_uint16_remove_parity(b, field) ==
    IF b.length < 2
    THEN Ret(b, Raised("AttributeError"), <<>>)
    ELSE IF ~InRange(b.data, b.offs) \/ ~InRange(b.data, b.offs + 1)
    THEN Ret(b, Raised("IndexError"), <<>>)
    ELSE LET lo == Subscript(b.data, b.offs)
             hi == Subscript(b.data, b.offs + 1)
         IN  Ret(Advance(b, 2), NoExc, BitXor(BitXor(hi, 1) * 128, lo))

peek_uint32(b, field) ==
    IF b.length < 4
    THEN Ret(b, Underrun(field, b.offs), <<>>)
    ELSE IF ~CanUnpack(b.data, b.offs, 4)
    THEN Ret(b, Raised("struct.error"), <<>>)
    ELSE Ret(b, NoExc, LEDigits(b.data, b.offs, 4))

get_uint32(b, field) ==
    LET r == peek_uint32(b, field)
    IN  IF r.raised # NoExc THEN r
        ELSE Ret(Advance(b, 4), NoExc, r.value)

(* The value is the IEEE-754 bit pattern read, as its four bytes.          *)
get_float32(b, field) ==
    IF b.length < 4
    THEN Ret(b, Underrun(field, b.offs), <<>>)
    ELSE LET nb == Advance(b, 4)
         IN  IF ~CanUnpack(b.data, nb.offs - 4, 4)
             THEN Ret(nb, Raised("struct.error"), <<>>)
             ELSE Ret(nb, NoExc, LEDigits(b.data, nb.offs - 4, 4))

(* The value is the string's bytes.                                        *)
get_string_len8(b, field) ==
    LET r == get_uint8(b, field \o <<"len">>)
    IN  IF r.raised # NoExc THEN r
        ELSE LET n == r.value
                 b1 == r.buf
             IN  IF b1.length < n
                 THEN Ret(b1, Underrun(field, b1.offs), <<>>)
                 ELSE LET nb == Advance(b1, n)
                          s == Slice(b.data, nb.offs - n, nb.offs)
                      IN  IF Utf8Valid(s)
                          THEN Ret(nb, NoExc, s)
                          ELSE Ret(nb, Raised("UnicodeDecodeError"), <<>>)

check_empty(b) == Ret(b, NoExc, <<>>)

-----------------------------------------------------------------------------
(* SpecBuf: a ParsingBuffer over a small bytes object, and any sequence of *)
(* calls of its methods.                                                   *)

BufBytes == {0, 2, 255}

RECURSIVE SeqsUpTo(_, _)
SeqsUpTo(S, n) ==
    IF n = 0 THEN {<<>>}
    ELSE LET shorter == SeqsUpTo(S, n - 1)
         IN  shorter \cup
             {Append(s, x) : s \in {t \in shorter : Len(t) = n - 1}, x \in S}

Buf == [data |-> data, offs |-> offs, length |-> length,
        image_beginning |-> image_beginning]


Idle ==
    /\ config = None /\ img_x = 0 /\ img_y = 0
    /\ pixels = None /\ cleaned_areas_pixels = None
    /\ rooms = <<>> /\ cleaned_areas = {} /\ unknown_pixels = {}
    /\ writes = <<>> /\ result = None

InitBuf ==
    /\ data \in {BytesOf(s) : s \in SeqsUpTo(BufBytes, MaxData)}
    /\ start_offs \in 0 .. MaxStart
    /\ init_length \in 0 .. MaxLength
    /\ offs = start_offs
    /\ length = init_length
    /\ image_beginning = 0
    /\ last = [op |-> "__init__", field |-> <<>>, arg |-> 0,
               pre_offs |-> start_offs, pre_length |-> init_length,
               raised |-> NoExc, value |-> <<>>]
    /\ pc = "buf"
    /\ Idle

(* The call op(field, arg) ended as r.                                     *)
Called(op, field, arg, r) ==
    /\ pc = "buf"
    /\ offs' = r.buf.offs
    /\ length' = r.buf.length
    /\ image_beginning' = r.buf.image_beginning
    /\ last' = [op |-> op, field |-> field, arg |-> arg,
                pre_offs |-> offs, pre_length |-> length,
                raised |-> r.raised, value |-> r.value]
    /\ UNCHANGED <<data, start_offs, init_length, pc, parsevars>>

F == <<"f">>

CallMark == Called("mark_as_image_beginning", <<>>, 0, mark_as_image_beginning(Buf))

CallGetAtImage ==
    \E o \in 0 .. MaxData + 1 : Called("get_at_image", <<>>, o, get_at_image(Buf, o))

CallSkip == \E n \in 0 .. MaxSkip : Called("skip", F, n, skip(Buf, F, n))

CallGetUint8 == Called("get_uint8", F, 0, get_uint8(Buf, F))

CallGetUint16 == Called("get_uint16", F, 0, get_uint16(Buf, F))

CallGetUint16RemoveParity ==
    Called("get_uint16_remove_parity", F, 0, get_uint16_remove_parity(Buf, F))

CallGetUint32 == Called("get_uint32", F, 0, get_uint32(Buf, F))

CallGetFloat32 == Called("get_float32", F, 0, get_float32(Buf, F))

CallGetStringLen8 == Called("get_string_len8", F, 0, get_string_len8(Buf, F))

CallPeekUint32 == Called("peek_uint32", F, 0, peek_uint32(Buf, F))

CallCheckEmpty == Called("check_empty", <<>>, 0, check_empty(Buf))

NextBuf ==
    \/ CallMark
    \/ CallGetAtImage
    \/ CallSkip
    \/ CallGetUint8
    \/ CallGetUint16
    \/ CallGetUint16RemoveParity
    \/ CallGetUint32
    \/ CallGetFloat32
    \/ CallGetStringLen8
    \/ CallPeekUint32
    \/ CallCheckEmpty

SpecBuf == InitBuf /\ [][NextBuf]_vars

-----------------------------------------------------------------------------
(* IjaiImageParser.                                                        *)

MAP_OUTSIDE == 0
MAP_WALL == 255
MAP_SCAN == 1
MAP_NEW_DISCOVERED_AREA == 2
MAP_ROOM_MIN == 10
MAP_ROOM_MAX == 59
MAP_SELECTED_ROOM_MIN == 60
MAP_SELECTED_ROOM_MAX == 109

(* Colours, by the palette entry they come from.                           *)
Transparent == <<"transparent">>

SupportedColor(name) == <<name>>

get_room_color(room_number) == <<"room", room_number>>

color_map ==
    (MAP_OUTSIDE :> SupportedColor("MAP_OUTSIDE"))
    @@ (MAP_WALL :> SupportedColor("MAP_WALL_V2"))
    @@ (MAP_SCAN :> SupportedColor("SCAN"))
    @@ (MAP_NEW_DISCOVERED_AREA :> SupportedColor("NEW_DISCOVERED_AREA"))

(* int(percent * dimension / 100) for a percentage and a dimension >= 0.   *)
Trim(percent, dimension) == (percent * dimension) \div 100

trim_left == Trim(config.left, config.width)
trim_right == Trim(config.right, config.width)
trim_top == Trim(config.top, config.height)
trim_bottom == Trim(config.bottom, config.height)
trimmed_height == config.height - trim_top - trim_bottom
trimmed_width == config.width - trim_left - trim_right

(* Image.new("RGBA", (w, h)): every pixel transparent.                     *)
NewImage(w, h) == [xy \in (0 .. w - 1) \X (0 .. h - 1) |-> Transparent]

(* Image.resize((w * k, h * k), NEAREST) for an integer scale k: output    *)
(* pixel (X, Y) samples input pixel (X div k, Y div k).                    *)
Resize(px, w, h, k) ==
    [xy \in (0 .. w * k - 1) \X (0 .. h * k - 1) |->
        px[<<xy[1] \div k, xy[2] \div k>>]]

Image(px, w, h) == [size |-> <<w, h>>, px |-> px]

Returned(image, rms, cleaned, layer) ==
    [kind |-> "return", image |-> image, rooms |-> rms,
     cleaned_areas |-> cleaned, cleaned_areas_layer |-> layer, exc |-> NoExc]

Raises(exc) ==
    [kind |-> "raise", image |-> None, rooms |-> <<>>,
     cleaned_areas |-> {}, cleaned_areas_layer |-> None, exc |-> exc]

(* The cursor becomes b; every other part of the buffer stays.             *)
SetBuf(b) ==
    /\ offs' = b.offs
    /\ length' = b.length
    /\ image_beginning' = b.image_beginning
    /\ UNCHANGED <<data, start_offs, init_length>>

(* The call ends by raising exc, the cursor at b.                          *)
Fail(b, exc) ==
    /\ SetBuf(b)
    /\ result' = Raises(exc)
    /\ pc' = "done"

(* Lines 44-67: the buffer, the trims, the empty result, the two images    *)
(* and the skip of the bottom rows.                                        *)
ParseBegin ==
    /\ pc = "parse"
    /\ last' = last
    /\ LET buf == ParsingBuffer(data, 0, config.width * config.height)
           r == skip(buf, <<"trim_bottom">>, trim_bottom * config.width)
       IN  IF trimmed_width = 0 \/ trimmed_height = 0
           THEN /\ SetBuf(buf)
                /\ result' = Returned(None, <<>>, {}, None)
                /\ pc' = "done"
                /\ UNCHANGED <<config, img_x, img_y, pixels,
                               cleaned_areas_pixels, rooms, cleaned_areas,
                               unknown_pixels, writes>>
           ELSE IF trimmed_width < 0 \/ trimmed_height < 0
           THEN \* Image.new refuses a negative size
                /\ Fail(buf, Raised("ValueError"))
                /\ UNCHANGED <<config, img_x, img_y, pixels,
                               cleaned_areas_pixels, rooms, cleaned_areas,
                               unknown_pixels, writes>>
           ELSE /\ pixels' = NewImage(trimmed_width, trimmed_height)
                /\ cleaned_areas_pixels' =
                      IF config.draw_cleaned_area
                      THEN NewImage(trimmed_width, trimmed_height)
                      ELSE None
                /\ writes' = [xy \in (0 .. trimmed_width - 1)
                                     \X (0 .. trimmed_height - 1) |-> 0]
                /\ rooms' = <<>>
                /\ cleaned_areas' = {}
                /\ unknown_pixels' = {}
                /\ img_x' = 0 /\ img_y' = 0
                /\ UNCHANGED config
                /\ IF r.raised # NoExc
                   THEN Fail(r.buf, r.raised)
                   ELSE /\ SetBuf(r.buf)
                        /\ pc' = "row"
                        /\ UNCHANGED result

(* Line 69: a row starts with the skip of its left trim.                   *)
RowBegin ==
    /\ pc = "row" /\ img_y < trimmed_height
    /\ last' = last
    /\ LET r == skip(Buf, <<"trim_left">>, trim_left)
       IN  IF r.raised # NoExc
           THEN Fail(r.buf, r.raised)
           ELSE SetBuf(r.buf) /\ pc' = "cell" /\ UNCHANGED result
    /\ img_x' = 0
    /\ UNCHANGED <<config, img_y, pixels, cleaned_areas_pixels, rooms,
                   cleaned_areas, unknown_pixels, writes>>

(* IjaiImageParser.get_color: the class defines no such attribute, so the  *)
(* two lines that call it raise AttributeError.                            *)
get_color_is_defined == FALSE

(* A box that forgets the cells seen before.                               *)
MergeRoom_overwrite(rms, room_number, room_x, room_y) ==
    [r \in DOMAIN rms \cup {room_number} |->
        IF r = room_number THEN <<room_x, room_y, room_x, room_y>> ELSE rms[r]]

(* Lines 86-92: the room's box after the cell (room_x, room_y).            *)
MergeRoom(rms, room_number, room_x, room_y) ==
    IF room_number \notin DOMAIN rms
    THEN rms @@ (room_number :> <<room_x, room_y, room_x, room_y>>)
    ELSE LET old == rms[room_number]
             Min(a, b) == IF a < b THEN a ELSE b
             Max(a, b) == IF a > b THEN a ELSE b
         IN  [rms EXCEPT ![room_number] =
                <<Min(old[1], room_x), Min(old[2], room_y),
                  Max(old[3], room_x), Max(old[4], room_y)>>]

(* Lines 71-97: one cell is read, classified and painted.                  *)
Cell ==
    /\ pc = "cell" /\ img_x < trimmed_width
    /\ last' = last
    /\ LET r == get_uint8(Buf, <<"pixel">>)
           pixel_type == r.value
           x == img_x
           y == trimmed_height - 1 - img_y
           Paint(c) ==
               /\ pixels' = [pixels EXCEPT ![<<x, y>>] = c]
               /\ writes' = [writes EXCEPT ![<<x, y>>] = @ + 1]
               /\ SetBuf(r.buf)
               /\ img_x' = img_x + 1
               /\ UNCHANGED <<pc, result>>
           Abort(exc) ==
               /\ Fail(r.buf, exc)
               /\ UNCHANGED <<img_x, pixels, writes>>
       IN  IF r.raised # NoExc
           THEN /\ Abort(r.raised)
                /\ UNCHANGED <<rooms, cleaned_areas, cleaned_areas_pixels,
                               unknown_pixels>>
           ELSE IF pixel_type \in DOMAIN color_map
           THEN /\ Paint(color_map[pixel_type])
                /\ UNCHANGED <<rooms, cleaned_areas, cleaned_areas_pixels,
                               unknown_pixels>>
           ELSE IF MAP_ROOM_MIN <= pixel_type
                   /\ pixel_type <= MAP_SELECTED_ROOM_MAX
           THEN LET room_x == img_x + trim_left
                    room_y == img_y + trim_bottom
                    selected == ~(pixel_type < MAP_SELECTED_ROOM_MIN)
                    room_number ==
                        IF selected
                        THEN pixel_type - MAP_SELECTED_ROOM_MIN + MAP_ROOM_MIN
                        ELSE pixel_type
                IN  /\ cleaned_areas' =
                          IF selected
                          THEN cleaned_areas \cup {room_number}
                          ELSE cleaned_areas
                    /\ UNCHANGED unknown_pixels
                    /\ IF selected /\ config.draw_cleaned_area
                          /\ ~get_color_is_defined
                       THEN /\ Abort(Raised("AttributeError"))
                            /\ UNCHANGED <<rooms, cleaned_areas_pixels>>
                       ELSE /\ cleaned_areas_pixels' =
                                 IF selected /\ config.draw_cleaned_area
                                 THEN [cleaned_areas_pixels EXCEPT
                                         ![<<x, y>>] =
                                            SupportedColor("CLEANED_AREA")]
                                 ELSE cleaned_areas_pixels
                            /\ rooms' =
                                 MergeRoom(rooms, room_number, room_x, room_y)
                            /\ Paint(get_room_color(room_number))
           ELSE /\ UNCHANGED <<rooms, cleaned_areas, cleaned_areas_pixels>>
                /\ IF ~get_color_is_defined
                   THEN /\ Abort(Raised("AttributeError"))
                        /\ UNCHANGED unknown_pixels
                   ELSE /\ Paint(SupportedColor("UNKNOWN"))
                        /\ unknown_pixels' =
                             unknown_pixels \cup {pixel_type}
    /\ UNCHANGED <<config, img_y>>

(* Line 98: a row ends with the skip of its right trim.                    *)
RowEnd ==
    /\ pc = "cell" /\ img_x = trimmed_width
    /\ last' = last
    /\ LET r == skip(Buf, <<"trim_right">>, trim_right)
       IN  IF r.raised # NoExc
           THEN Fail(r.buf, r.raised) /\ UNCHANGED img_y
           ELSE /\ SetBuf(r.buf)
                /\ pc' = "row"
                /\ img_y' = img_y + 1
                /\ UNCHANGED result
    /\ UNCHANGED <<config, img_x, pixels, cleaned_areas_pixels, rooms,
                   cleaned_areas, unknown_pixels, writes>>

(* Lines 99-107: the skip of the top rows, the resize and the return.      *)
ParseEnd ==
    /\ pc = "row" /\ img_y = trimmed_height
    /\ last' = last
    /\ LET r == skip(Buf, <<"trim_top">>, trim_top * config.width)
           k == config.scale
           image ==
               IF k # 1
               THEN Image(Resize(pixels, trimmed_width, trimmed_height, k),
                          trimmed_width * k, trimmed_height * k)
               ELSE Image(pixels, trimmed_width, trimmed_height)
           layer ==
               IF ~config.draw_cleaned_area THEN None
               ELSE IF k # 1
               THEN Image(Resize(cleaned_areas_pixels, trimmed_width,
                                 trimmed_height, k),
                          trimmed_width * k, trimmed_height * k)
               ELSE Image(cleaned_areas_pixels, trimmed_width, trimmed_height)
       IN  IF r.raised # NoExc
           THEN Fail(r.buf, r.raised)
           ELSE /\ SetBuf(r.buf)
                /\ result' = Returned(image, rooms, cleaned_areas, layer)
                /\ pc' = "done"
    /\ UNCHANGED <<config, img_x, img_y, pixels, cleaned_areas_pixels,
                   rooms, cleaned_areas, unknown_pixels, writes>>

(* The inputs of a parse call.                                             *)
CellBytes == {0, 3, 10, 11, 60}

(* Trim percentages: the left and bottom trims range further, so that a   *)
(* pair of opposite trims can leave a positive, a zero or a negative       *)
(* trimmed dimension.                                                      *)
TrimPercents == {0, 50, 100}

FarTrimPercents == {0, 50}

Scales == {1, 2}

RECURSIVE SeqsOfLen(_, _)
SeqsOfLen(S, n) ==
    IF n = 0 THEN {<<>>}
    ELSE {Append(s, x) : s \in SeqsOfLen(S, n - 1), x \in S}

Configs ==
    {c \in [width : 1 .. MaxCells, height : 1 .. MaxCells,
            left : TrimPercents, right : FarTrimPercents,
            top : FarTrimPercents, bottom : TrimPercents,
            draw_cleaned_area : BOOLEAN, scale : Scales] :
        c.width * c.height <= MaxCells}

Init ==
    /\ config \in Configs
    /\ \E n \in 0 .. config.width * config.height :
          /\ n >= config.width * config.height - MaxMissing
          /\ data \in {BytesOf(s) : s \in SeqsOfLen(CellBytes, n)}
    /\ offs = 0 /\ length = 0 /\ image_beginning = 0
    /\ start_offs = 0
    /\ init_length = config.width * config.height
    /\ last = None
    /\ pc = "parse"
    /\ img_x = 0 /\ img_y = 0
    /\ pixels = None /\ cleaned_areas_pixels = None
    /\ rooms = <<>> /\ cleaned_areas = {} /\ unknown_pixels = {}
    /\ writes = <<>> /\ result = None

Next == ParseBegin \/ RowBegin \/ Cell \/ RowEnd \/ ParseEnd

Spec == Init /\ [][Next]_vars

-----------------------------------------------------------------------------
(* IjaiImageParser.get_current_vacuum_room and SpecLoc: the locator on     *)
(* rasters of GRID x GRID bytes.                                           *)

GRID == 800

(* An optional room id: <<>> is None, <<r>> is the id r.                   *)
NoRoom == <<>>

RoomId(r) == <<r>>

(* Lines 110-118, for a point of integer coordinates (int() leaves them).  *)
get_current_vacuum_room(map_data, x, y) ==
    LET buf == ParsingBuffer(map_data, 0, GRID * GRID)
        r == get_at_image(buf, y * GRID + x)
        pixel_type == r.value
    IN  IF r.raised # NoExc THEN Ret(None, r.raised, NoRoom)
        ELSE IF MAP_ROOM_MIN <= pixel_type /\ pixel_type <= MAP_ROOM_MAX
        THEN Ret(None, NoExc, RoomId(pixel_type))
        ELSE IF MAP_SELECTED_ROOM_MIN <= pixel_type
                /\ pixel_type <= MAP_SELECTED_ROOM_MAX
        THEN Ret(None, NoExc,
                 RoomId(pixel_type - MAP_SELECTED_ROOM_MIN + MAP_ROOM_MIN))
        ELSE Ret(None, NoExc, NoRoom)

(* The rasters: one byte everywhere but at one marked cell.                *)
LocBytes == {0, 9, 10, 12, 59, 60, 70, 109, 110, 255}

ProbeCoords == {0, 1, GRID - 2, GRID - 1}

PointCoords == ProbeCoords \cup {GRID}

InitLoc ==
    /\ \E fill \in LocBytes, b \in LocBytes, x \in ProbeCoords, y \in ProbeCoords :
          data = [len |-> GRID * GRID, fill |-> fill,
                  at |-> (y * GRID + x) :> b]
    /\ offs = 0 /\ length = GRID * GRID /\ image_beginning = 0
    /\ start_offs = 0 /\ init_length = GRID * GRID
    /\ last = [op |-> "__init__", arg |-> <<0, 0>>, raised |-> NoExc,
               value |-> NoRoom]
    /\ pc = "loc"
    /\ Idle

Locate ==
    /\ pc = "loc"
    /\ \E x \in PointCoords, y \in PointCoords :
          LET r == get_current_vacuum_room(data, x, y)
          IN  last' = [op |-> "get_current_vacuum_room", arg |-> <<x, y>>,
                       raised |-> r.raised, value |-> r.value]
    /\ UNCHANGED <<bufvars, pc, parsevars>>

NextLoc == Locate

SpecLoc == InitLoc /\ [][NextLoc]_vars

(* The classification of a byte: its room id, if any.                      *)
Classified(b) ==
    IF 10 <= b /\ b <= 59 THEN RoomId(b)
    ELSE IF 60 <= b /\ b <= 109 THEN RoomId(b - 50)
    ELSE NoRoom

(* C2: on an 800x800 raster and a point (x, y) inside it the locator       *)
(* returns the classification of the byte at linear index y * 800 + x.     *)
C2_LocatorReadsCellAtPoint ==
    (/\ last.op = "get_current_vacuum_room"
     /\ data.len = 800 * 800
     /\ last.arg[1] \in 0 .. 799 /\ last.arg[2] \in 0 .. 799) =>
        /\ last.raised = NoExc
        /\ last.value = Classified(ByteAt(data, last.arg[2] * 800 + last.arg[1]))

(* What the code reads instead: the byte one index earlier, which for the  *)
(* point (0, 0) is index -1, the raster's last byte.                       *)
C2_LocatorReadsPreviousIndex ==
    (/\ last.op = "get_current_vacuum_room"
     /\ data.len = 800 * 800
     /\ last.arg[1] \in 0 .. 799 /\ last.arg[2] \in 0 .. 799) =>
        /\ last.raised = NoExc
        /\ last.value =
              Classified(Subscript(data, last.arg[2] * 800 + last.arg[1] - 1))

-----------------------------------------------------------------------------
(* Python floats.  A float is IEEE-754 binary64: sign s, significand m and *)
(* exponent e stand for s * m * 2^e.  The significand is a natural number  *)
(* written as its bits, least significant first and without leading zeros, *)
(* so that its 53 bits do not depend on the width of the checker's         *)
(* integers.  A float is kept canonical (m odd, or zero as +0), so equal   *)
(* floats are equal values.  Exponents stay far inside binary64's range.   *)

MANT_DIG == 53

(* Naturals are added, subtracted and divided LimbBits bits at a time; the *)
(* width changes how the arithmetic is carried out, never its result.      *)
LimbBits == 12

Pad(n) == [k \in 1 .. LimbBits |-> (n \div 2 ^ (k - 1)) % 2]

Ones(b) == {i \in 1 .. Len(b) : b[i] = 1}

Top(S) == CHOOSE i \in S : \A j \in S : j <= i

Bottom(S) == CHOOSE i \in S : \A j \in S : i <= j

Normal(b) == IF Ones(b) = {} THEN <<>> ELSE SubSeq(b, 1, Top(Ones(b)))

LowZeros(b) == IF Ones(b) = {} THEN 0 ELSE Bottom(Ones(b)) - 1

NatBits(n) == Normal([k \in 1 .. 31 |-> (n \div 2 ^ (k - 1)) % 2])

RECURSIVE NatValue(_)
NatValue(b) == IF b = <<>> THEN 0 ELSE b[1] + 2 * NatValue(Tail(b))

Limb(b, i) ==
    NatValue(SubSeq(b, (i - 1) * LimbBits + 1,
                    IF i * LimbBits < Len(b) THEN i * LimbBits ELSE Len(b)))

RECURSIVE NatAddFrom(_, _, _, _)
NatAddFrom(a, b, i, carry) ==
    IF (i - 1) * LimbBits >= Len(a) /\ (i - 1) * LimbBits >= Len(b)
    THEN Pad(carry)
    ELSE LET t == Limb(a, i) + Limb(b, i) + carry
         IN  Pad(t % 2 ^ LimbBits) \o NatAddFrom(a, b, i + 1, t \div 2 ^ LimbBits)

NatAdd(a, b) == Normal(NatAddFrom(a, b, 1, 0))

(* a - b for a >= b.                                                       *)
RECURSIVE NatSubFrom(_, _, _, _)
NatSubFrom(a, b, i, borrow) ==
    IF (i - 1) * LimbBits >= Len(a) THEN <<>>
    ELSE LET t == Limb(a, i) - Limb(b, i) - borrow
         IN  IF t < 0
             THEN Pad(t + 2 ^ LimbBits) \o NatSubFrom(a, b, i + 1, 1)
             ELSE Pad(t) \o NatSubFrom(a, b, i + 1, 0)

NatSub(a, b) == Normal(NatSubFrom(a, b, 1, 0))

NatLess(a, b) ==
    IF Len(a) # Len(b) THEN Len(a) < Len(b)
    ELSE \E i \in 1 .. Len(a) :
            /\ a[i] < b[i]
            /\ \A j \in i + 1 .. Len(a) : a[j] = b[j]

ShiftLeft(b, k) == IF b = <<>> THEN <<>> ELSE [i \in 1 .. k |-> 0] \o b

(* The quotient and the remainder of the limbs i and above of a by d.      *)
RECURSIVE NatDivFrom(_, _, _)
NatDivFrom(a, d, i) ==
    IF (i - 1) * LimbBits >= Len(a) THEN [q |-> <<>>, r |-> 0]
    ELSE LET h == NatDivFrom(a, d, i + 1)
             t == h.r * 2 ^ LimbBits + Limb(a, i)
         IN  [q |-> Pad(t \div d) \o h.q, r |-> t % d]

NatDiv(a, d) ==
    LET h == NatDivFrom(a, d, 1) IN [q |-> Normal(h.q), r |-> h.r]

Float(s, m, e) ==
    IF m = <<>> THEN [s |-> 1, m |-> <<>>, e |-> 0]
    ELSE LET z == LowZeros(m)
         IN  [s |-> s, m |-> SubSeq(m, z + 1, Len(m)), e |-> e + z]

(* float(n) of an int n that needs no rounding.                            *)
FromInt(n) == Float(IF n < 0 THEN -1 ELSE 1, NatBits(IF n < 0 THEN -n ELSE n), 0)

(* The binary64 nearest to s * (m + f) * 2^e, ties to even, where          *)
(* 0 <= f < 1 and inexact tells whether f > 0.                             *)
Round(s, m, e, inexact) ==
    IF Len(m) <= MANT_DIG
    THEN Float(s, m, e)    \* callers give inexact quotients more bits
    ELSE LET d == Len(m) - MANT_DIG
             kept == SubSeq(m, d + 1, Len(m))
             guard == m[d]
             sticky == inexact \/ \E i \in 1 .. d - 1 : m[i] = 1
             up == guard = 1 /\ (sticky \/ kept[1] = 1)
         IN  Float(s, IF up THEN NatAdd(kept, <<1>>) ELSE kept, e + d)

(* a + b before rounding.                                                  *)
ExactAdd(a, b) ==
    LET e == IF a.e < b.e THEN a.e ELSE b.e
        ma == ShiftLeft(a.m, a.e - e)
        mb == ShiftLeft(b.m, b.e - e)
    IN  IF a.s = b.s THEN Float(a.s, NatAdd(ma, mb), e)
        ELSE IF NatLess(ma, mb) THEN Float(b.s, NatSub(mb, ma), e)
        ELSE Float(a.s, NatSub(ma, mb), e)

IsFloat(x) == Len(x.m) <= MANT_DIG

FloatAdd(a, b) ==
    LET x == ExactAdd(a, b) IN Round(x.s, x.m, x.e, FALSE)

FloatNeg(a) == Float(-a.s, a.m, a.e)

FloatSub(a, b) == FloatAdd(a, FloatNeg(b))

(* a * n for an int n > 0.                                                 *)
RECURSIVE NatMul(_, _)
NatMul(a, n) ==
    IF n = 0 THEN <<>>
    ELSE LET h == NatMul(ShiftLeft(a, 1), n \div 2)
         IN  IF n % 2 = 1 THEN NatAdd(a, h) ELSE h

ExactMulInt(a, n) == Float(a.s, NatMul(a.m, n), a.e)

FloatMulInt(a, n) ==
    LET x == ExactMulInt(a, n) IN Round(x.s, x.m, x.e, FALSE)

(* a / n for an int n > 0: the quotient is taken to 60 bits beyond the     *)
(* dividend's, which leaves more than MANT_DIG + 2 of them to round.       *)
FloatDivInt(a, n) ==
    LET h == NatDiv(ShiftLeft(a.m, 60), n)
    IN  Round(a.s, h.q, a.e - 60, h.r # 0)

(* int(a): truncation toward zero, for a result that fits an integer.      *)
FloatToInt(a) ==
    a.s * NatValue(IF a.e >= 0 THEN ShiftLeft(a.m, a.e)
                   ELSE SubSeq(a.m, 1 - a.e, Len(a.m)))

(* |a - b| <= 2^k, the difference taken exactly.                           *)
FloatWithin(a, b, k) ==
    LET d == ExactAdd(a, FloatNeg(b))
    IN  \/ d.m = <<>>
        \/ Len(d.m) + d.e - 1 < k
        \/ Len(d.m) + d.e - 1 = k /\ d.m = <<1>>

-----------------------------------------------------------------------------
(* IjaiMapDataParser's coordinate transforms.                              *)

Point(x, y) == [x |-> x, y |-> y]

_map_to_image(p) ==
    Point(FloatAdd(FloatMulInt(p.x, 20), FromInt(400)),
          FloatAdd(FloatMulInt(p.y, 20), FromInt(400)))

(* _image_to_map without the offset of the raster's centre.                *)
_image_to_map_no_offset(x) == FloatDivInt(x, 20)

_image_to_map(x) == FloatDivInt(FloatSub(x, FromInt(400)), 20)

(* SpecXform: a Point of real-world coordinates, or of pixel coordinates,  *)
(* is carried through the transforms; last.arg keeps the Point the run     *)
(* started from, last.origin which kind it was, last.trips the number of   *)
(* transforms applied.  The locator truncates an image Point with int().   *)

(* The real-world coordinate of pixel GRID, in centimetres.                *)
RANGE_CM == ((GRID - 400) \div 20) * 100

(* float(n) / 100: the binary64 nearest to n centimetres, in metres.       *)
Cm(n) == IF n < 0 THEN FloatNeg(FloatDivInt(FromInt(-n), 100))
         ELSE FloatDivInt(FromInt(n), 100)

(* A float32 value below half a unit in the last place of 400.             *)
Tiny == Float(1, <<1>>, -60)

WorldCoords ==
    {Cm(n) : n \in -MaxCm .. MaxCm}
        \cup {Cm(n) : n \in {-RANGE_CM, 1 - RANGE_CM, RANGE_CM - 1, RANGE_CM}}
        \cup {Tiny, FloatNeg(Tiny)}

PixelCols == 0 .. GRID

PixelRows == (0 .. MaxRow) \cup (GRID - 1 - MaxRow .. GRID)

Carried(op, origin, arg, trips, value) ==
    [op |-> op, origin |-> origin, arg |-> arg, raised |-> NoExc,
     trips |-> trips, value |-> value]

InitXform ==
    /\ data = BytesOf(<<>>) /\ offs = 0 /\ length = 0 /\ image_beginning = 0
    /\ start_offs = 0 /\ init_length = 0
    /\ \/ \E x \in WorldCoords, y \in WorldCoords :
             /\ last = Carried("Point", "map", Point(x, y), 0, Point(x, y))
             /\ pc = "map"
       \/ \E x \in PixelCols, y \in PixelRows :
             LET p == Point(FromInt(x), FromInt(y))
             IN  /\ last = Carried("Point", "image", p, 0, p)
                 /\ pc = "image"
    /\ Idle

MapToImage ==
    /\ pc = "map"
    /\ last.trips < 2
    /\ last' = Carried("_map_to_image", last.origin, last.arg,
                       last.trips + 1, _map_to_image(last.value))
    /\ pc' = "image"
    /\ UNCHANGED <<bufvars, parsevars>>

ImageToMap ==
    /\ pc = "image"
    /\ last.trips < 2
    /\ last' = Carried("_image_to_map", last.origin, last.arg,
                       last.trips + 1,
                       Point(_image_to_map(last.value.x),
                             _image_to_map(last.value.y)))
    /\ pc' = "map"
    /\ UNCHANGED <<bufvars, parsevars>>

Truncate ==
    /\ pc = "image"
    /\ last.trips > 0
    /\ last' = Carried("int", last.origin, last.arg, last.trips,
                       Point(FloatToInt(last.value.x),
                             FloatToInt(last.value.y)))
    /\ pc' = "cell"
    /\ UNCHANGED <<bufvars, parsevars>>

NextXform == MapToImage \/ ImageToMap \/ Truncate

SpecXform == InitXform /\ [][NextXform]_vars

RoundTrip == last.trips = 2 /\ pc # "cell"

(* C9 as stated: the transforms are mutually inverse: a real-world Point   *)
(* mapped to the image and back, and a pixel Point mapped to the map and   *)
(* back, is the Point the round trip started from.                         *)
C9_TransformsAreInverse == RoundTrip => last.value = last.arg

(* x * 20 + 400 computed without rounding.                                 *)
MapsExactly(x) ==
    /\ IsFloat(ExactMulInt(x, 20))
    /\ IsFloat(ExactAdd(ExactMulInt(x, 20), FromInt(400)))

NearlyEqual(a, b) == FloatWithin(a, b, -47)

(* C9: in binary64 the transforms are inverse up to rounding: a real-world *)
(* coordinate v of -20 .. 20 mapped to the image and back differs from v   *)
(* by at most 2^-47, and is v whenever v * 20 + 400 is computed exactly;   *)
(* an integer pixel coordinate p of 0 .. 800 mapped to the map and back is *)
(* exactly p, and int() of it is p.                                        *)
C9_InverseUpToRounding ==
    /\ (RoundTrip /\ last.origin = "map") =>
          /\ NearlyEqual(last.value.x, last.arg.x)
          /\ NearlyEqual(last.value.y, last.arg.y)
          /\ MapsExactly(last.arg.x) => last.value.x = last.arg.x
          /\ MapsExactly(last.arg.y) => last.value.y = last.arg.y
    /\ (RoundTrip /\ last.origin = "image") => last.value = last.arg
    /\ (last.trips = 2 /\ pc = "cell") =>
          last.value = Point(FloatToInt(last.arg.x), FloatToInt(last.arg.y))

(* A centimetre coordinate comes back changed on one axis, the exactly     *)
(* mapped coordinate of the other axis unchanged.                          *)
C9_Witness ==
    /\ RoundTrip /\ last.origin = "map"
    /\ last.value.x # last.arg.x
    /\ MapsExactly(last.arg.y) /\ last.arg.y # FromInt(0)
    /\ last.value.y = last.arg.y

-----------------------------------------------------------------------------
(* The decoder's contract, stated over the raster: the cell at raster row  *)
(* r and column c is the byte at r * width + c.                            *)

Started == pc \in {"row", "cell", "done"}

Done == pc = "done"

Complete == data.len >= config.width * config.height

VisibleRows == trim_bottom .. config.height - trim_top - 1

VisibleCols == trim_left .. config.width - trim_right - 1

Visible == VisibleRows \X VisibleCols

RasterByte(rc) == ByteAt(data, rc[1] * config.width + rc[2])

IsFixed(b) == b \in {0, 1, 2, 255}

IsPlainRoom(b) == 10 <= b /\ b <= 59

IsSelectedRoom(b) == 60 <= b /\ b <= 109

IsUnknown(b) == ~IsFixed(b) /\ ~IsPlainRoom(b) /\ ~IsSelectedRoom(b)

RoomOf(b) == IF IsSelectedRoom(b) THEN b - 50 ELSE b

(* The output pixel of the visible cell rc at scale 1.                     *)
PixelOf(rc) == <<rc[2] - trim_left, trimmed_height - 1 - (rc[1] - trim_bottom)>>

HasUnknown == \E rc \in Visible : IsUnknown(RasterByte(rc))

HasSelected == \E rc \in Visible : IsSelectedRoom(RasterByte(rc))

(* C1: a visible cell with an unrecognized byte does not abort the pass:   *)
(* the call returns a bitmap, the cell has the unknown colour and the      *)
(* unknown-values set holds exactly the unrecognized raw values.  (No      *)
(* selected cell is drawn on an overlay here, and the raster is complete.) *)
C1_UnknownByteIsNotFatal ==
    (Done /\ Complete /\ trimmed_width > 0 /\ trimmed_height > 0
          /\ HasUnknown /\ ~(config.draw_cleaned_area /\ HasSelected)) =>
        /\ result.kind = "return"
        /\ result.image # None
        /\ \A rc \in Visible :
              IsUnknown(RasterByte(rc)) =>
                  pixels[PixelOf(rc)] = SupportedColor("UNKNOWN")
        /\ unknown_pixels =
              {RasterByte(rc) : rc \in {v \in Visible : IsUnknown(RasterByte(v))}}

(* C3: map_data shorter than width * height makes the call fail with the   *)
(* cursor's underrun ValueError, reported at the first missing byte.       *)
C3_ShortDataIsUnderrun ==
    (Done /\ ~Complete) =>
        /\ result.kind = "raise"
        /\ result.exc.type = "ValueError"
        /\ result.exc.field # <<>>
        /\ result.exc.offset = data.len

(* The two ways C3 fails: the read of the first missing byte raises        *)
(* IndexError, and a call that only skips the missing bytes returns.       *)
C3_ShortDataRaisesIndexError ==
    Done /\ ~Complete /\ result.kind = "raise"
         /\ result.exc.type = "IndexError" /\ offs = data.len + 1

C3_ShortDataReturnsBitmap ==
    Done /\ ~Complete /\ result.kind = "return" /\ result.image # None

(* C4: a trimmed width or height that is zero or negative gives the empty  *)
(* result and no error.                                                    *)
C4_CollapsedTrimIsEmptyResult ==
    (Done /\ (trimmed_width <= 0 \/ trimmed_height <= 0)) =>
        result = Returned(None, <<>>, {}, None)

(* The part of C4 the code keeps: a trimmed dimension of exactly zero.     *)
C4_ZeroTrimIsEmptyResult ==
    (Done /\ (trimmed_width = 0 \/ trimmed_height = 0)) =>
        result = Returned(None, <<>>, {}, None)

(* C5: with or without the overlay the call completes, the cleaned-area    *)
(* set is { b - 50 : b a visible byte in 60..109 }, and a requested        *)
(* overlay has the cleaned-area colour at exactly those cells.  (The       *)
(* raster is complete, of recognized bytes, and scale is 1.)               *)
C5_CleanedAreas ==
    (Done /\ Complete /\ trimmed_width > 0 /\ trimmed_height > 0
          /\ ~HasUnknown /\ config.scale = 1) =>
        /\ result.kind = "return"
        /\ result.cleaned_areas =
              {RasterByte(rc) - 50 :
                  rc \in {v \in Visible : IsSelectedRoom(RasterByte(v))}}
        /\ config.draw_cleaned_area =>
              /\ result.cleaned_areas_layer # None
              /\ \A rc \in Visible :
                    result.cleaned_areas_layer.px[PixelOf(rc)] =
                        IF IsSelectedRoom(RasterByte(rc))
                        THEN SupportedColor("CLEANED_AREA")
                        ELSE Transparent

(* The part of C5 the code keeps: the cleaned-area set of a call that      *)
(* returned.                                                               *)
C5_CleanedAreasWhenReturned ==
    (Done /\ result.kind = "return") =>
        result.cleaned_areas =
            {RasterByte(rc) - 50 :
                rc \in {v \in Visible : IsSelectedRoom(RasterByte(v))}}

(* The cells of room r among a set of cells.                               *)
RoomCells(r, cells) ==
    {rc \in cells : ~IsUnknown(RasterByte(rc)) /\ ~IsFixed(RasterByte(rc))
                       /\ RoomOf(RasterByte(rc)) = r}

SetMin(S) == CHOOSE m \in S : \A n \in S : m <= n

SetMax(S) == CHOOSE m \in S : \A n \in S : m >= n

(* The minimal box, (min column, min row, max column, max row).            *)
BoxOf(cells) ==
    <<SetMin({rc[2] : rc \in cells}), SetMin({rc[1] : rc \in cells}),
      SetMax({rc[2] : rc \in cells}), SetMax({rc[1] : rc \in cells})>>

Within(inner, outer) ==
    /\ outer[1] <= inner[1] /\ outer[2] <= inner[2]
    /\ inner[3] <= outer[3] /\ inner[4] <= outer[4]

RoomsAreMinimalBoxes ==
    (Done /\ result.kind = "return") =>
        /\ DOMAIN result.rooms =
              {RoomOf(RasterByte(rc)) :
                  rc \in {v \in Visible : IsPlainRoom(RasterByte(v))
                                            \/ IsSelectedRoom(RasterByte(v))}}
        /\ \A r \in DOMAIN result.rooms :
              result.rooms[r] = BoxOf(RoomCells(r, Visible))

(* A step of the pass keeps every box or widens it, and a box it creates   *)
(* is the single cell just read, in source-raster coordinates.             *)
RoomsOnlyWiden ==
    (Started /\ pc' # "parse") =>
        /\ \A r \in DOMAIN rooms :
              r \in DOMAIN rooms' /\ Within(rooms[r], rooms'[r])
        /\ \A r \in DOMAIN rooms' \ DOMAIN rooms :
              rooms'[r] = <<img_x + trim_left, img_y + trim_bottom,
                           img_x + trim_left, img_y + trim_bottom>>

(* C6: after a parse that returned, the room map has a key r exactly when  *)
(* a visible cell has byte r or r + 50, each box is the minimal rectangle  *)
(* of the room's cells in source-raster coordinates, and during the pass a *)
(* box is created at the room's first cell and then only widens.           *)
C6_RoomBoxes == []RoomsAreMinimalBoxes /\ [][RoomsOnlyWiden]_vars

(* A returned room map with a box built from a plain and a selected cell   *)
(* of the same room, under a trim that shifts the coordinates.             *)
C6_Witness ==
    /\ Done /\ result.kind = "return"
    /\ trim_left > 0
    /\ \E r \in DOMAIN result.rooms :
          /\ result.rooms[r][1] < result.rooms[r][3]
          /\ \E a, b \in RoomCells(r, Visible) :
                IsPlainRoom(RasterByte(a)) /\ IsSelectedRoom(RasterByte(b))

(* The colour the decoder gives a recognized byte.                         *)
ColourOf(b) ==
    IF b = 0 THEN SupportedColor("MAP_OUTSIDE")
    ELSE IF b = 255 THEN SupportedColor("MAP_WALL_V2")
    ELSE IF b = 1 THEN SupportedColor("SCAN")
    ELSE IF b = 2 THEN SupportedColor("NEW_DISCOVERED_AREA")
    ELSE get_room_color(RoomOf(b))

BitmapIsFlippedRaster ==
    /\ result.kind = "return"
    /\ result.image # None
    /\ result.image.size = <<trimmed_width, trimmed_height>>
    /\ DOMAIN result.image.px =
          (0 .. trimmed_width - 1) \X (0 .. trimmed_height - 1)
    /\ \A xy \in DOMAIN writes : writes[xy] = 1
    /\ \A rc \in Visible :
          result.image.px[PixelOf(rc)] = ColourOf(RasterByte(rc))

(* C7: at scale 1 a raster of recognized bytes gives a bitmap of the       *)
(* trimmed size, every pixel written once, the visible cell (r, c) at      *)
(* pixel (c - trim_left, trimmed_height - 1 - (r - trim_bottom)).          *)
C7_BitmapGeometry ==
    (Done /\ Complete /\ trimmed_width > 0 /\ trimmed_height > 0
          /\ ~HasUnknown /\ config.scale = 1) =>
        BitmapIsFlippedRaster

(* The part of C7 the code keeps: the same, when no selected cell is drawn *)
(* on an overlay.                                                          *)
C7_BitmapGeometryWithoutOverlayCell ==
    (Done /\ Complete /\ trimmed_width > 0 /\ trimmed_height > 0
          /\ ~HasUnknown /\ config.scale = 1
          /\ ~(config.draw_cleaned_area /\ HasSelected)) =>
        BitmapIsFlippedRaster

-----------------------------------------------------------------------------
(* The cursor's contract.                                                  *)

Primitives ==
    {"skip", "get_uint8", "get_uint16", "get_uint16_remove_parity",
     "get_uint32", "get_float32", "get_string_len8", "peek_uint32"}

(* The bytes the last call needed, seen from the state it was made in: a   *)
(* length-prefixed string needs its length byte and the bytes it counts.   *)
Needed ==
    CASE last.op = "skip" -> last.arg
      [] last.op = "get_uint8" -> 1
      [] last.op \in {"get_uint16", "get_uint16_remove_parity"} -> 2
      [] last.op \in {"get_uint32", "get_float32", "peek_uint32"} -> 4
      [] last.op = "get_string_len8" ->
            IF last.pre_length >= 1 /\ InRange(data, last.pre_offs)
            THEN 1 + Subscript(data, last.pre_offs)
            ELSE 1
      [] OTHER -> 0

NamesField(exc, field) ==
    /\ Len(exc.field) >= Len(field)
    /\ SubSeq(exc.field, 1, Len(field)) = field

(* C8: a primitive called with fewer bytes remaining than it needs fails   *)
(* with the underrun ValueError that names the field and the offset, and   *)
(* leaves (offs, length) as they were before the call.                     *)
C8_UnderrunIsAtomic ==
    (last.op \in Primitives /\ last.pre_length < Needed) =>
        /\ last.raised.type = "ValueError"
        /\ NamesField(last.raised, last.field)
        /\ last.raised.offset = last.pre_offs
        /\ offs = last.pre_offs
        /\ length = last.pre_length

(* The two ways C8 fails, each reached.                                    *)
C8_ParityRaisesAttributeError ==
    /\ last.op = "get_uint16_remove_parity"
    /\ last.pre_length < 2
    /\ last.raised.type = "AttributeError"

C8_StringLeavesCursorMoved ==
    /\ last.op = "get_string_len8"
    /\ last.pre_length >= 1 /\ last.pre_length < Needed
    /\ last.raised.type = "ValueError"
    /\ offs = last.pre_offs + 1 /\ length = last.pre_length - 1

(* The bytes a call that returned has consumed.                            *)
Consumed ==
    CASE last.op = "skip" -> last.arg
      [] last.op = "get_uint8" -> 1
      [] last.op \in {"get_uint16", "get_uint16_remove_parity"} -> 2
      [] last.op \in {"get_uint32", "get_float32"} -> 4
      [] last.op = "get_string_len8" -> 1 + Subscript(data, last.pre_offs)
      [] OTHER -> 0

(* C10: offs + length stays start_offs + init_length and length stays in   *)
(* 0 .. init_length whatever calls are made; a call that returns moves     *)
(* offs up and length down by the bytes it consumed; peek_uint32 and       *)
(* get_at_image move neither.                                              *)
C10_CursorConservation ==
    /\ offs + length = start_offs + init_length
    /\ 0 <= length /\ length <= init_length
    /\ (last.op \in Primitives /\ last.raised = NoExc) =>
          /\ offs = last.pre_offs + Consumed
          /\ length = last.pre_length - Consumed
    /\ last.op \in {"peek_uint32", "get_at_image"} =>
          /\ offs = last.pre_offs
          /\ length = last.pre_length

(* A string read that returned, made after earlier calls had already moved *)
(* the cursor, and that consumed its length byte and at least one more.    *)
C10_Witness ==
    /\ last.op = "get_string_len8" /\ last.raised = NoExc
    /\ last.pre_offs > start_offs
    /\ offs > last.pre_offs + 1
    /\ length < init_length

-----------------------------------------------------------------------------
(* The decoder and its cursor.                                             *)

ReturnedBitmap == Done /\ result.kind = "return" /\ result.image # None

(* C11: when parse returns a bitmap from data of at least width * height   *)
(* bytes, the cursor has consumed exactly width * height bytes (length is  *)
(* 0 and offs is width * height); and with both trimmed dimensions         *)
(* positive and such data no skip and no read ends the call with an        *)
(* underrun or an index error.                                             *)
C11_PassConsumesRaster ==
    /\ (ReturnedBitmap /\ Complete) =>
          /\ length = 0
          /\ offs = config.width * config.height
    /\ (Done /\ Complete /\ trimmed_width > 0 /\ trimmed_height > 0
           /\ result.kind = "raise") =>
          result.exc.type = "AttributeError"

(* A returned bitmap of a raster trimmed on the left and at the bottom,    *)
(* whose pass read a room cell.                                            *)
C11_Witness ==
    /\ ReturnedBitmap /\ Complete
    /\ trim_left > 0 /\ trim_bottom > 0
    /\ result.rooms # <<>>
    /\ offs = config.width * config.height

-----------------------------------------------------------------------------
(* IjaiMapDataParser.parse, lines 74 and 117-123, and SpecMap: the decoder *)
(* on the raster (the actions of Spec), then the locator on the same bytes *)
(* at the projected vacuum position and the lookup of the room it names in *)
(* the decoder's room map.  The position is the image Point after int().   *)

PositionCols == 0 .. MaxCells + 1

PositionRows == 0 .. 1

(* map_data.rooms[vacuum_room] raises KeyError for a key the map lacks.    *)
Lookup(rms, vacuum_room) ==
    IF vacuum_room # NoRoom /\ vacuum_room[1] \notin DOMAIN rms
    THEN Raised("KeyError")
    ELSE NoExc

LocateVacuum ==
    /\ pc = "done"
    /\ result.kind = "return"
    /\ result.image # None
    /\ result.rooms # <<>>
    /\ \E x \in PositionCols, y \in PositionRows :
          LET r == get_current_vacuum_room(data, x, y)
          IN  last' = [op |-> "vacuum_room", arg |-> <<x, y>>,
                       raised |-> IF r.raised # NoExc THEN r.raised
                                  ELSE Lookup(result.rooms, r.value),
                       value |-> r.value]
    /\ pc' = "located"
    /\ UNCHANGED <<bufvars, parsevars>>

NextMap == Next \/ LocateVacuum

SpecMap == Init /\ [][NextMap]_vars

Located == pc = "located" /\ last.value # NoRoom

(* C12: whenever the locator returns a room id for the vacuum position,    *)
(* the id is a key of the room map the decoder produced from the same      *)
(* raster bytes, for every trim setting and every position, and the lookup *)
(* of the room's name raises no KeyError.                                  *)
C12_VacuumRoomIsKey ==
    Located =>
        /\ last.value[1] \in DOMAIN result.rooms
        /\ last.raised = NoExc

(* With no trim every byte of a complete raster is a visible cell, and the *)
(* id the locator returns is a key of the room map.                        *)
C12_VacuumRoomIsKeyWithoutTrim ==
    (/\ Located /\ Complete
     /\ trim_left = 0 /\ trim_right = 0 /\ trim_top = 0 /\ trim_bottom = 0) =>
        /\ last.value[1] \in DOMAIN result.rooms
        /\ last.raised = NoExc

====
